---- MODULE Spec2Model ----
(***************************************************************************)
(* Model of statistics_and_trends.py: the read_csv -> preprocessing ->     *)
(* plots -> statistical_analysis -> writing pipeline of main(), together   *)
(* with direct calls of preprocessing() and writing().                     *)
(*                                                                         *)
(* Text (column names, raw CSV cells, printed numbers) is a sequence of    *)
(* one-character strings.  A float is an integer count of 1/Scale units    *)
(* (fixed point), or the distinguished cell NaN.                           *)
(***************************************************************************)
EXTENDS Integers, Sequences, FiniteSets, TLC

VARIABLES
    pc,         \* the statement the run is at
    file,       \* data.csv: whether it exists, and its columns as written
    df,         \* the data frame
    raw,        \* the frame as it was handed to the first preprocessing() call
    first,      \* the frame the first preprocessing() call returned
    moments,    \* the tuple statistical_analysis() returned
    stdout,     \* the lines printed so far
    err,        \* the exception that ended the run, "" when none
    scipyZero,  \* what the installed scipy returns on constant data
    steps,      \* the steps of main() that ran, each with its outcome
    images      \* the image files saved

vars == <<pc, file, df, raw, first, moments, stdout, err, scipyZero, steps, images>>

(***************************************************************************)
(* Bounds of the model.                                                    *)
(***************************************************************************)
\* largest number of data rows of a freely enumerated input column
MaxRows == 2

\* fixed-point resolution of a float: two decimals, as the report prints them
Scale == 100

(***************************************************************************)
(* Text.                                                                   *)
(***************************************************************************)
Whitespace == {" ", "\t"}

Digits == {"0", "1", "2", "3", "4", "5", "6", "7", "8", "9"}

DigitVal(c) ==
    CASE c = "0" -> 0 [] c = "1" -> 1 [] c = "2" -> 2 [] c = "3" -> 3
      [] c = "4" -> 4 [] c = "5" -> 5 [] c = "6" -> 6 [] c = "7" -> 7
      [] c = "8" -> 8 [] c = "9" -> 9

DigitChar(d) ==
    CASE d = 0 -> "0" [] d = 1 -> "1" [] d = 2 -> "2" [] d = 3 -> "3"
      [] d = 4 -> "4" [] d = 5 -> "5" [] d = 6 -> "6" [] d = 7 -> "7"
      [] d = 8 -> "8" [] d = 9 -> "9"

RECURSIVE LStrip(_)
LStrip(s) ==
    IF s # <<>> /\ Head(s) \in Whitespace THEN LStrip(Tail(s)) ELSE s

RECURSIVE RStrip(_)
RStrip(s) ==
    IF s # <<>> /\ s[Len(s)] \in Whitespace
    THEN RStrip(SubSeq(s, 1, Len(s) - 1))
    ELSE s

\* a faulty variant of Strip: only leading whitespace is removed
StripLeadingOnly(s) == LStrip(s)

\* str.strip(): remove leading and trailing whitespace
Strip(s) == RStrip(LStrip(s))

(***************************************************************************)
(* Cells and floats.                                                       *)
(***************************************************************************)
NaN == [k |-> "nan", v |-> 0, s |-> <<>>]

Num(x) == [k |-> "num", v |-> x, s |-> <<>>]

Str(t) == [k |-> "str", v |-> 0, s |-> t]

IsNaN(c) == c.k = "nan"

IsNum(c) == c.k = "num"

\* division rounded to the nearest unit (b > 0)
RDiv(a, b) ==
    IF a >= 0 THEN (2 * a + b) \div (2 * b) ELSE -((2 * (-a) + b) \div (2 * b))

RECURSIVE DigitsValue(_)
DigitsValue(s) ==
    IF s = <<>> THEN 0
    ELSE 10 * DigitsValue(SubSeq(s, 1, Len(s) - 1)) + DigitVal(s[Len(s)])

AllDigits(s) == s # <<>> /\ \A i \in 1..Len(s) : s[i] \in Digits

\* does the text read as a number: an optional sign, then digits
Parses(s) ==
    \/ AllDigits(s)
    \/ s # <<>> /\ Head(s) = "-" /\ AllDigits(Tail(s))

ParseValue(s) ==
    IF Head(s) = "-" THEN -(Scale * DigitsValue(Tail(s)))
    ELSE Scale * DigitsValue(s)

\* a faulty variant of ToNumericCell: unparseable text is read as zero, not as missing
ToNumericCellZero(c) ==
    IF c.k = "str" THEN (IF Parses(c.s) THEN Num(ParseValue(c.s)) ELSE Num(0))
    ELSE c

\* pd.to_numeric(..., errors='coerce') on one value
ToNumericCell(c) ==
    IF c.k = "str" THEN (IF Parses(c.s) THEN Num(ParseValue(c.s)) ELSE NaN)
    ELSE c

(***************************************************************************)
(* Data frames: a sequence of columns, each a name, a dtype ("object" or   *)
(* "float") and its cells.                                                 *)
(***************************************************************************)
Column(name, dtype, cells) == [name |-> name, dtype |-> dtype, cells |-> cells]

NoFrame == <<>>

Names(d) == {d[i].name : i \in 1..Len(d)}

HasColumn(d, name) == name \in Names(d)

ColIndex(d, name) == CHOOSE i \in 1..Len(d) : d[i].name = name

\* df[name]
Col(d, name) == d[ColIndex(d, name)]

summer_gold == <<"s", "u", "m", "m", "e", "r", "_", "g", "o", "l", "d">>

summer_total == <<"s", "u", "m", "m", "e", "r", "_", "t", "o", "t", "a", "l">>

total_gold == <<"t", "o", "t", "a", "l", "_", "g", "o", "l", "d">>

total_total == <<"t", "o", "t", "a", "l", "_", "t", "o", "t", "a", "l">>

total_participation ==
    <<"t", "o", "t", "a", "l", "_", "p", "a", "r", "t", "i", "c", "i", "p",
      "a", "t", "i", "o", "n">>

countries == <<"c", "o", "u", "n", "t", "r", "i", "e", "s">>

\* numeric_columns of preprocessing()
numeric_columns == <<summer_gold, summer_total, total_gold, total_total>>

Designated == {numeric_columns[i] : i \in 1..Len(numeric_columns)}

(***************************************************************************)
(* pd.read_csv: the header is kept as written; a column whose non-empty    *)
(* cells all read as numbers is a float column (empty cells missing), any  *)
(* other column is an object column of text (empty cells missing).         *)
(***************************************************************************)
ReadCsvColumn(rc) ==
    LET n == Len(rc.cells)
        numeric == \A i \in 1..n : rc.cells[i] = <<>> \/ Parses(rc.cells[i])
    IN  IF numeric
        THEN Column(rc.name, "float",
                    [i \in 1..n |-> IF rc.cells[i] = <<>> THEN NaN
                                    ELSE Num(ParseValue(rc.cells[i]))])
        ELSE Column(rc.name, "object",
                    [i \in 1..n |-> IF rc.cells[i] = <<>> THEN NaN
                                    ELSE Str(rc.cells[i])])

ReadCsv(f) == [i \in 1..Len(f.cols) |-> ReadCsvColumn(f.cols[i])]

(***************************************************************************)
(* preprocessing()                                                         *)
(***************************************************************************)
\* df.columns = df.columns.str.strip()
StripColumns(d) == [i \in 1..Len(d) |-> [d[i] EXCEPT !.name = Strip(d[i].name)]]

\* a faulty variant of MissingColumns: an absent designated column is not looked for
MissingColumnsIgnored(d) == {}

\* the labels of numeric_columns that df[numeric_columns] does not find
MissingColumns(d) == {c \in Designated : ~HasColumn(d, c)}

\* df[numeric_columns] = df[numeric_columns].apply(pd.to_numeric, errors='coerce')
CoerceColumns(d) ==
    [i \in 1..Len(d) |->
        IF d[i].name \in Designated
        THEN Column(d[i].name, "float",
                    [j \in 1..Len(d[i].cells) |-> ToNumericCell(d[i].cells[j])])
        ELSE d[i]]

RECURSIVE Insert(_, _)
Insert(x, s) ==
    IF s = <<>> THEN <<x>>
    ELSE IF x <= Head(s) THEN <<x>> \o s
    ELSE <<Head(s)>> \o Insert(x, Tail(s))

RECURSIVE Sorted(_)
Sorted(s) == IF s = <<>> THEN <<>> ELSE Insert(Head(s), Sorted(Tail(s)))

\* the present (non-missing) values of a column, in row order
Present(cells) ==
    LET p == SelectSeq(cells, IsNum) IN [i \in 1..Len(p) |-> p[i].v]

\* a faulty variant of Median: the smallest present value
MedianLowest(cells) ==
    LET p == Sorted(Present(cells))
    IN  IF p = <<>> THEN NaN ELSE Num(p[1])

\* Series.median(): the median of the present values, NaN when there is none
Median(cells) ==
    LET p == Sorted(Present(cells))
        n == Len(p)
    IN  IF n = 0 THEN NaN
        ELSE IF n % 2 = 1 THEN Num(p[(n + 1) \div 2])
        ELSE Num(RDiv(p[n \div 2] + p[n \div 2 + 1], 2))

\* df.fillna(df.median(numeric_only=True), inplace=True)
Fillna(d) ==
    [i \in 1..Len(d) |->
        IF d[i].dtype = "float"
        THEN LET m == Median(d[i].cells)
             IN  [d[i] EXCEPT !.cells =
                    [j \in 1..Len(d[i].cells) |->
                        IF IsNaN(d[i].cells[j]) THEN m ELSE d[i].cells[j]]]
        ELSE d[i]]

SummaryLines(d) ==
    << [kind |-> "header", f |-> <<>>],
       [kind |-> "describe",
        f |-> SelectSeq([i \in 1..Len(d) |-> d[i].name],
                        LAMBDA nm : Col(d, nm).dtype = "float")] >>

\* a faulty variant of Preprocessing: the medians are filled in before the coercion
PreprocessingFillFirst(d) ==
    LET renamed == StripColumns(d)
    IN  IF MissingColumns(renamed) # {}
        THEN [raised |-> "KeyError", df |-> renamed, printed |-> <<>>]
        ELSE LET cleaned == CoerceColumns(Fillna(renamed))
             IN  [raised |-> "", df |-> cleaned, printed |-> SummaryLines(cleaned)]

\* preprocessing(df): the frame it leaves behind, what it raises and prints
Preprocessing(d) ==
    LET renamed == StripColumns(d)
    IN  IF MissingColumns(renamed) # {}
        THEN [raised |-> "KeyError", df |-> renamed, printed |-> <<>>]
        ELSE LET cleaned == Fillna(CoerceColumns(renamed))
             IN  [raised |-> "", df |-> cleaned, printed |-> SummaryLines(cleaned)]

(***************************************************************************)
(* statistical_analysis()                                                  *)
(***************************************************************************)
RECURSIVE Sum(_)
Sum(s) == IF s = <<>> THEN 0 ELSE Head(s) + Sum(Tail(s))

RECURSIVE SqrtSearch(_, _, _)
SqrtSearch(x, lo, hi) ==
    IF lo >= hi THEN lo
    ELSE LET mid == (lo + hi + 1) \div 2
         IN  IF mid * mid <= x THEN SqrtSearch(x, mid, hi)
             ELSE SqrtSearch(x, lo, mid - 1)

\* the square root of a float (x >= 0), in 1/Scale units
Sqrt(x) == SqrtSearch(x * Scale, 0, 40000)

\* the product of two floats
Mul(a, b) == RDiv(a * b, Scale)

\* Series.mean(): the mean of the present values
Mean(cells) ==
    LET p == Present(cells)
    IN  IF p = <<>> THEN NaN ELSE Num(RDiv(Sum(p), Len(p)))

\* Series.std(): the sample standard deviation (divisor n - 1) of the present values
Std(cells) ==
    LET p == Present(cells)
        n == Len(p)
        mu == RDiv(Sum(p), n)
        sq == [i \in 1..n |-> Mul(p[i] - mu, p[i] - mu)]
    IN  IF n < 2 THEN NaN ELSE Num(Sqrt(RDiv(Sum(sq), n - 1)))

\* scipy.stats.moment(a, k): the k-th central moment (divisor n), k in 2..4
Moment(p, k) ==
    LET n == Len(p)
        mu == RDiv(Sum(p), n)
        pw == [i \in 1..n |->
                 LET dv == p[i] - mu
                     d2 == Mul(dv, dv)
                 IN  IF k = 2 THEN d2 ELSE IF k = 3 THEN Mul(d2, dv) ELSE Mul(d2, d2)]
    IN  RDiv(Sum(pw), n)

HasMissing(cells) == \E i \in 1..Len(cells) : ~IsNum(cells[i])

\* scipy.stats.skew(a): m3 / m2^1.5; on constant data the library gives NaN
\* (current releases) or 0 (older releases)
Skew(cells, zero) ==
    IF HasMissing(cells) \/ cells = <<>> THEN NaN
    ELSE LET p == Present(cells)
             m2 == Moment(p, 2)
         IN  IF m2 = 0 THEN (IF zero = "nan" THEN NaN ELSE Num(0))
             ELSE Num(RDiv(Moment(p, 3) * Scale, Mul(m2, Sqrt(m2))))

\* scipy.stats.kurtosis(a): m4 / m2^2 - 3; on constant data the library gives
\* NaN (current releases) or 0 - 3 (older releases)
Kurtosis(cells, zero) ==
    IF HasMissing(cells) \/ cells = <<>> THEN NaN
    ELSE LET p == Present(cells)
             m2 == Moment(p, 2)
         IN  IF m2 = 0 THEN (IF zero = "nan" THEN NaN ELSE Num(0 - 3 * Scale))
             ELSE Num(RDiv(Moment(p, 4) * Scale, Mul(m2, m2)) - 3 * Scale)

\* statistical_analysis(df, col)
StatisticalAnalysis(d, col, zero) ==
    LET c == Col(d, col).cells
    IN  <<Mean(c), Std(c), Skew(c, zero), Kurtosis(c, zero)>>

NoMoments == <<>>

(***************************************************************************)
(* writing()                                                               *)
(***************************************************************************)
\* float comparisons: any comparison with NaN is false
Gt(x, lim) == IsNum(x) /\ x.v > lim

Lt(x, lim) == IsNum(x) /\ x.v < lim

RECURSIVE NatChars(_)
NatChars(n) ==
    IF n < 10 THEN <<DigitChar(n)>>
    ELSE NatChars(n \div 10) \o <<DigitChar(n % 10)>>

\* f'{x:.2f}'
Fmt2(x) ==
    IF ~IsNum(x) THEN <<"n", "a", "n">>
    ELSE LET h == RDiv((IF x.v < 0 THEN -x.v ELSE x.v) * 100, Scale)
         IN  (IF x.v < 0 THEN <<"-">> ELSE <<>>)
             \o NatChars(h \div 100)
             \o <<".", DigitChar((h % 100) \div 10), DigitChar(h % 10)>>

\* a faulty variant of SkewnessInterpretation: the bounds are not strict
SkewnessInterpretationInclusive(m) ==
    IF Gt(m[3], 2 * Scale - 1) THEN "right-skewed"
    ELSE IF Lt(m[3], 1 - 2 * Scale) THEN "left-skewed"
    ELSE "not skewed"

SkewnessInterpretation(m) ==
    IF Gt(m[3], 2 * Scale) THEN "right-skewed"
    ELSE IF Lt(m[3], -(2 * Scale)) THEN "left-skewed"
    ELSE "not skewed"

KurtosisInterpretation(m) ==
    IF Gt(m[4], 0) THEN "leptokurtic (heavy-tailed)"
    ELSE IF Lt(m[4], 0) THEN "platykurtic (light-tailed)"
    ELSE "mesokurtic"

\* writing(moments, col): the three lines it prints
Writing(m, col) ==
    << [kind |-> "attribute", f |-> <<col>>],
       [kind |-> "moments", f |-> <<Fmt2(m[1]), Fmt2(m[2]), Fmt2(m[3]), Fmt2(m[4])>>],
       [kind |-> "interpretation",
        f |-> <<SkewnessInterpretation(m), KurtosisInterpretation(m)>>] >>

(***************************************************************************)
(* Inputs.                                                                 *)
(***************************************************************************)
RawCells == {<<"5">>, <<"2", "0">>, <<"a", "b", "c">>, <<>>}

\* the two columns the specification works through
ExampleColumns ==
    { << <<"1", "0">>, <<"a", "b", "c">>, <<"2", "0">>, <<>> >>,
      << <<"5">>, <<"5">>, <<"5">>, <<"5">> >> }

ColumnInputs == UNION {[1..n -> RawCells] : n \in 1..MaxRows} \cup ExampleColumns

SecondColumns(n) ==
    {[i \in 1..n |-> c] : c \in RawCells} \cup {e \in ExampleColumns : Len(e) = n}

Pad(name, style) ==
    CASE style = 1 -> <<" ">> \o name
      [] style = 2 -> name \o <<" ">>
      [] style = 3 -> <<" ", " ">> \o name \o <<"\t">>
      [] OTHER -> name

\* the file with columns a and b; v = 0 as is, 1..3 with total_gold padded in
\* style v and countries in style 4 - v, 4..9 with one of the six columns left out
CsvFile(a, b, v) ==
    LET n == Len(a)
        all == << [name |-> Pad(countries, 4 - v), cells |-> [i \in 1..n |-> <<"a", "b", "c">>]],
                  [name |-> summer_gold, cells |-> b],
                  [name |-> summer_total, cells |-> a],
                  [name |-> Pad(total_gold, v), cells |-> a],
                  [name |-> total_total, cells |-> b],
                  [name |-> total_participation, cells |-> a] >>
        kept == IF v >= 4
                THEN [i \in 1..5 |-> IF i < v - 3 THEN all[i] ELSE all[i + 1]]
                ELSE all
    IN  [exists |-> TRUE, cols |-> kept]

NoFile == [exists |-> FALSE, cols |-> <<>>]

CsvFiles ==
    {CsvFile(a, b, v) : <<a, b, v>> \in
        {t \in ColumnInputs \X (UNION {SecondColumns(n) : n \in 1..4}) \X (0..9) :
            Len(t[1]) = Len(t[2])}}

ScipyReleases == {"nan", "legacy"}

(***************************************************************************)
(* main()                                                                  *)
(***************************************************************************)
StepOrder ==
    << "read_csv", "preprocessing", "plot_relational_plot", "plot_statistical_plot",
       "plot_categorical_plot", "statistical_analysis", "writing" >>

\* a faulty variant of AfterStep: a failed step is skipped and the run goes on
AfterStepContinue(raised, next) == next

\* an exception raised in a step leaves main(); otherwise the next statement runs
AfterStep(raised, next) == IF raised = "" THEN next ELSE "failed"

Ran(step, raised) == Append(steps, [step |-> step, raised |-> raised])

Init ==
    /\ pc = "read_csv"
    /\ file \in CsvFiles \cup {NoFile}
    /\ df = NoFrame
    /\ raw = NoFrame
    /\ first = NoFrame
    /\ moments = NoMoments
    /\ stdout = <<>>
    /\ err = ""
    /\ scipyZero \in ScipyReleases
    /\ steps = <<>>
    /\ images = {}

\* df = pd.read_csv("data.csv")
Load ==
    /\ pc = "read_csv"
    /\ LET raised == IF file.exists THEN "" ELSE "FileNotFoundError"
       IN  /\ df' = IF file.exists THEN ReadCsv(file) ELSE df
           /\ err' = raised
           /\ steps' = Ran("read_csv", raised)
           /\ pc' = AfterStep(raised, "preprocessing")
    /\ UNCHANGED <<file, raw, first, moments, stdout, scipyZero, images>>

\* df = preprocessing(df)
Preprocess ==
    /\ pc = "preprocessing"
    /\ LET r == Preprocessing(df)
       IN  /\ raw' = df
           /\ df' = r.df
           /\ first' = IF r.raised = "" THEN r.df ELSE first
           /\ stdout' = stdout \o r.printed
           /\ err' = r.raised
           /\ steps' = Ran("preprocessing", r.raised)
           /\ pc' = AfterStep(r.raised, "plot_relational_plot")
    /\ UNCHANGED <<file, moments, scipyZero, images>>

\* a plot: the columns it reads must be there, and savefig() may fail
Plot(step, needs, image, next) ==
    /\ pc = step
    /\ \E saved \in BOOLEAN :
         LET raised == IF \E c \in needs : ~HasColumn(df, c) THEN "KeyError"
                       ELSE IF ~saved THEN "OSError" ELSE ""
         IN  /\ images' = IF raised = "" THEN images \cup {image} ELSE images
             /\ err' = IF raised = "" THEN err ELSE raised
             /\ steps' = Ran(step, raised)
             /\ pc' = AfterStep(raised, next)
    /\ UNCHANGED <<file, df, raw, first, moments, stdout, scipyZero>>

PlotRelational ==
    Plot("plot_relational_plot", {total_participation, total_total},
         "relational_plot.png", "plot_statistical_plot")

PlotStatistical ==
    Plot("plot_statistical_plot", {}, "statistical_plot.png", "plot_categorical_plot")

PlotCategorical ==
    Plot("plot_categorical_plot", {total_gold, countries},
         "categorical_plot.png", "statistical_analysis")

\* moments = statistical_analysis(df, col), col = "total_gold"
Analyse ==
    /\ pc = "statistical_analysis"
    /\ LET raised == IF HasColumn(df, total_gold) THEN "" ELSE "KeyError"
       IN  /\ moments' = IF raised = "" THEN StatisticalAnalysis(df, total_gold, scipyZero)
                         ELSE moments
           /\ err' = IF raised = "" THEN err ELSE raised
           /\ steps' = Ran("statistical_analysis", raised)
           /\ pc' = AfterStep(raised, "writing")
    /\ UNCHANGED <<file, df, raw, first, stdout, scipyZero, images>>

\* writing(moments, col)
Write ==
    /\ pc = "writing"
    /\ LET raised == IF moments = NoMoments THEN "TypeError" ELSE ""
       IN  /\ stdout' = IF raised = "" THEN stdout \o Writing(moments, total_gold)
                        ELSE stdout
           /\ err' = IF raised = "" THEN err ELSE raised
           /\ steps' = Ran("writing", raised)
           /\ pc' = AfterStep(raised, "done")
    /\ UNCHANGED <<file, df, raw, first, moments, scipyZero, images>>

Next ==
    \/ Load
    \/ Preprocess
    \/ PlotRelational
    \/ PlotStatistical
    \/ PlotCategorical
    \/ Analyse
    \/ Write

Spec == Init /\ [][Next]_vars

(***************************************************************************)
(* preprocessing() called on a frame, and again on the frame it returned.  *)
(***************************************************************************)
InitPre ==
    /\ pc = "call1"
    /\ file \in CsvFiles
    /\ df = ReadCsv(file)
    /\ raw = NoFrame
    /\ first = NoFrame
    /\ moments = NoMoments
    /\ stdout = <<>>
    /\ err = ""
    /\ scipyZero \in ScipyReleases
    /\ steps = <<>>
    /\ images = {}

CallPreprocessing ==
    /\ pc = "call1"
    /\ LET r == Preprocessing(df)
       IN  /\ raw' = df
           /\ df' = r.df
           /\ first' = IF r.raised = "" THEN r.df ELSE first
           /\ stdout' = stdout \o r.printed
           /\ err' = r.raised
           /\ pc' = IF r.raised = "" THEN "call2" ELSE "raised"
    /\ UNCHANGED <<file, moments, scipyZero, steps, images>>

CallPreprocessingAgain ==
    /\ pc = "call2"
    /\ LET r == Preprocessing(df)
       IN  /\ df' = r.df
           /\ stdout' = stdout \o r.printed
           /\ err' = r.raised
           /\ pc' = IF r.raised = "" THEN "called_twice" ELSE "raised"
    /\ UNCHANGED <<file, raw, first, moments, scipyZero, steps, images>>

NextPre ==
    \/ CallPreprocessing
    \/ CallPreprocessingAgain

SpecPre == InitPre /\ [][NextPre]_vars

(***************************************************************************)
(* writing() called on a tuple of moments.                                 *)
(***************************************************************************)
Floats(vs) == {Num(v) : v \in vs}

MeanInputs == Floats({0, 500})

StdInputs == Floats({0, 408}) \cup {NaN}

SkewInputs == Floats({-250, -201, -200, -199, 0, 10, 199, 200, 201, 250}) \cup {NaN}

KurtosisInputs == Floats({-300, -30, -1, 0, 1, 300}) \cup {NaN}

InitWriting ==
    /\ pc = "call_writing"
    /\ moments \in MeanInputs \X StdInputs \X SkewInputs \X KurtosisInputs
    /\ file = NoFile
    /\ df = NoFrame
    /\ raw = NoFrame
    /\ first = NoFrame
    /\ stdout = <<>>
    /\ err = ""
    /\ scipyZero \in ScipyReleases
    /\ steps = <<>>
    /\ images = {}

CallWriting ==
    /\ pc = "call_writing"
    /\ stdout' = stdout \o Writing(moments, total_gold)
    /\ pc' = "written"
    /\ UNCHANGED <<file, df, raw, first, moments, err, scipyZero, steps, images>>

NextWriting == CallWriting

SpecWriting == InitWriting /\ [][NextWriting]_vars

(***************************************************************************)
(* Properties of preprocessing(), under SpecPre.                           *)
(***************************************************************************)
Returned == pc \in {"call2", "called_twice"}

\* the columns of the input frame whose stripped name is a designated one
DesignatedAt(d) == {i \in 1..Len(d) : Strip(d[i].name) \in Designated}

\* an input cell that reads as a number, and the number it reads as
Readable(c) == c.k = "num" \/ (c.k = "str" /\ Parses(c.s))

ValueOf(c) == IF c.k = "num" THEN c.v ELSE ParseValue(c.s)

ReadableAt(cells) == {j \in 1..Len(cells) : Readable(cells[j])}

\* the k-th smallest of the readable values of a column, by counting
KthSmallest(cells, k) ==
    LET J == ReadableAt(cells)
    IN  CHOOSE x \in {ValueOf(cells[j]) : j \in J} :
            /\ Cardinality({j \in J : ValueOf(cells[j]) < x}) < k
            /\ Cardinality({j \in J : ValueOf(cells[j]) <= x}) >= k

\* twice the median of the readable values of a column
TwiceMedian(cells) ==
    LET n == Cardinality(ReadableAt(cells))
    IN  KthSmallest(cells, (n + 1) \div 2) + KthSmallest(cells, n \div 2 + 1)

ExampleRaw == << Str(<<"1", "0">>), Str(<<"a", "b", "c">>), Str(<<"2", "0">>), NaN >>

ExampleClean == << Num(10 * Scale), Num(15 * Scale), Num(20 * Scale), Num(15 * Scale) >>

\* C1: after preprocessing() returns, none of the four designated columns
\* holds a missing value, whatever the columns held before.
C1_NoMissingInDesignated ==
    Returned =>
        \A c \in Designated :
            \A j \in 1..Len(Col(df, c).cells) : ~IsNaN(Col(df, c).cells[j])

\* C2: in a designated column every entry that does not read as a number or is
\* empty becomes missing without an error, and is then replaced by the median
\* of the column's readable values (it stays missing when there is none),
\* while a readable entry keeps its value; ["10","abc","20",""] becomes
\* [10, 15, 20, 15].
C2_CoerceThenImpute ==
    /\ pc = "raised" => \E c \in Designated : \A i \in 1..Len(raw) : Strip(raw[i].name) # c
    /\ Returned =>
         \A i \in DesignatedAt(raw) :
            LET before == raw[i].cells
                after == first[i].cells
            IN  /\ Len(after) = Len(before)
                /\ \A j \in 1..Len(before) :
                      IF Readable(before[j]) THEN after[j] = Num(ValueOf(before[j]))
                      ELSE IF ReadableAt(before) = {} THEN IsNaN(after[j])
                      ELSE IsNum(after[j]) /\ 2 * after[j].v = TwiceMedian(before)
                /\ before = ExampleRaw => after = ExampleClean

C2_Witness ==
    /\ pc = "call2"
    /\ \E i \in DesignatedAt(raw) : raw[i].cells = ExampleRaw /\ df[i].cells = ExampleClean

\* C3: preprocessing() applied to the frame preprocessing() returned gives
\* that same frame again (same column names, same cells), and does not raise.
C3_Idempotent ==
    /\ pc = "called_twice" => df = first
    /\ pc = "raised" => first = NoFrame

C3_Witness ==
    /\ pc = "called_twice"
    /\ \E i \in DesignatedAt(raw) :
          \E j \in 1..Len(raw[i].cells) : IsNaN(raw[i].cells[j]) /\ IsNum(df[i].cells[j])
    /\ \E i \in 1..Len(raw) : raw[i].name # df[i].name

SomeDesignatedAbsent(d) ==
    \E c \in Designated : \A i \in 1..Len(d) : Strip(d[i].name) # c

\* C9 as stated: preprocessing() raises no error when a designated column is
\* absent from the input, and still returns a cleaned frame.
C9_AbsentColumnTolerated ==
    (pc # "call1" /\ SomeDesignatedAbsent(raw)) => (Returned /\ err = "")

\* C9 as amended: preprocessing() raises KeyError, and returns no frame, exactly
\* when one of the four designated columns is absent from the input.
C9_AbsentColumnRaises ==
    pc # "call1" =>
        /\ SomeDesignatedAbsent(raw) <=> (pc = "raised" /\ err = "KeyError")
        /\ ~SomeDesignatedAbsent(raw) <=> (Returned /\ err = "")

C9_Witness ==
    /\ pc = "raised"
    /\ err = "KeyError"
    /\ \A i \in 1..Len(raw) : raw[i].name # total_gold
    /\ \E i \in 1..Len(raw) : raw[i].name = total_total

Trimmed(name) ==
    name = <<>> \/ (Head(name) \notin Whitespace /\ name[Len(name)] \notin Whitespace)

\* C10: after preprocessing() returns no column name has leading or trailing
\* whitespace, and a designated column written with surrounding whitespace
\* is the one coerced and imputed.
C10_NamesStripped ==
    Returned =>
        /\ \A i \in 1..Len(df) : Trimmed(df[i].name)
        /\ \A i \in DesignatedAt(raw) :
              /\ df[i].name \in Designated
              /\ df[i].dtype = "float"
              /\ \A j \in 1..Len(df[i].cells) :
                    /\ df[i].cells[j].k # "str"
                    /\ IsNaN(df[i].cells[j]) => ReadableAt(raw[i].cells) = {}

C10_Witness ==
    /\ pc = "call2"
    /\ \E i \in 1..Len(raw) :
          /\ raw[i].name = <<" ", " ">> \o total_gold \o <<"\t">>
          /\ df[i].name = total_gold
          /\ \E j \in 1..Len(raw[i].cells) :
                raw[i].cells[j] = Str(<<"a", "b", "c">>) /\ IsNum(df[i].cells[j])

(***************************************************************************)
(* Properties of main(), under Spec.                                       *)
(***************************************************************************)
Printed(kind) == {i \in 1..Len(stdout) : stdout[i].kind = kind}

MomentsLine == stdout[CHOOSE i \in Printed("moments") : TRUE].f

PrintsNaN == \E i \in 1..4 : MomentsLine[i] = <<"n", "a", "n">>

\* the analysed column has two rows or more and the same number in each
ConstantColumn(d, x) ==
    /\ HasColumn(d, total_gold)
    /\ Len(Col(d, total_gold).cells) >= 2
    /\ \A j \in 1..Len(Col(d, total_gold).cells) : Col(d, total_gold).cells[j] = Num(x)

\* C4: when the analysed column has zero variance, the report gives the mean
\* as the common value and stddev, skewness and excess kurtosis as 0, and no
\* not-a-number value is printed.
C4_ZeroVarianceReport ==
    pc = "done" =>
        \A x \in {5 * Scale, 20 * Scale} :
            ConstantColumn(df, x) =>
                /\ moments = <<Num(x), Num(0), Num(0), Num(0)>>
                /\ ~PrintsNaN

PreprocessingRan == Len(steps) >= 2

\* a column preprocessing() takes the median of, with no readable entry at all
Unreadable(d) ==
    \E i \in 1..Len(d) :
        /\ Strip(d[i].name) \in Designated \/ d[i].dtype = "float"
        /\ d[i].cells # <<>>
        /\ ReadableAt(d[i].cells) = {}

\* C5: when a designated or other numeric column has no readable value at all,
\* preprocessing() surfaces an error, and no frame with the undefined value in
\* it flows on into the plots and the analysis.
C5_UndefinedMedianSurfaces ==
    (PreprocessingRan /\ Unreadable(raw)) => (steps[2].raised # "" /\ pc = "failed")

AllImages == {"relational_plot.png", "statistical_plot.png", "categorical_plot.png"}

\* C8: the steps of main() run in the fixed order load, preprocess, relational
\* plot, statistical plot, categorical plot, statistical_analysis, writing; a
\* step that fails is the last one to run; the moment report is printed only
\* when loading, preprocessing and all three plots completed.
C8_NoPartialSuccess ==
    /\ Len(steps) <= Len(StepOrder)
    /\ \A i \in 1..Len(steps) : steps[i].step = StepOrder[i]
    /\ \A i \in 1..(Len(steps) - 1) : steps[i].raised = ""
    /\ pc = "failed" <=> (steps # <<>> /\ steps[Len(steps)].raised # "")
    /\ pc = "failed" <=> err # ""
    /\ Printed("moments") # {} =>
          /\ Len(steps) = Len(StepOrder)
          /\ \A i \in 1..Len(steps) : steps[i].raised = ""
          /\ images = AllImages
          /\ pc = "done"

C8_Witness ==
    /\ pc = "failed"
    /\ Len(steps) = 4
    /\ steps[4] = [step |-> "plot_statistical_plot", raised |-> "OSError"]
    /\ images = {"relational_plot.png"}
    /\ Printed("moments") = {}
    /\ moments = NoMoments

(***************************************************************************)
(* Properties of writing(), under SpecWriting.                             *)
(***************************************************************************)
Interpretation == stdout[CHOOSE i \in Printed("interpretation") : TRUE].f

\* C6: the skewness label is "right-skewed" exactly when skewness > 2,
\* "left-skewed" exactly when skewness < -2 and "not skewed" otherwise (2 and
\* -2 themselves are "not skewed"), whatever the other three moments are.
C6_SkewnessLabel ==
    pc = "written" =>
        LET sk == moments[3]
            above == sk.k = "num" /\ sk.v > 2 * Scale
            below == sk.k = "num" /\ sk.v < -(2 * Scale)
        IN  /\ Interpretation[1] = "right-skewed" <=> above
            /\ Interpretation[1] = "left-skewed" <=> below
            /\ Interpretation[1] = "not skewed" <=> (~above /\ ~below)

C6_Witness ==
    /\ pc = "written"
    /\ moments[3] = Num(2 * Scale)
    /\ moments[4] = Num(3 * Scale)
    /\ Interpretation[1] = "not skewed"

\* C7: the kurtosis label is "leptokurtic (heavy-tailed)" exactly when the
\* excess kurtosis is > 0, "platykurtic (light-tailed)" exactly when it is < 0
\* and "mesokurtic" exactly when it is 0, so never for an undefined value.
C7_KurtosisLabel ==
    pc = "written" =>
        LET ku == moments[4]
        IN  /\ Interpretation[2] = "leptokurtic (heavy-tailed)" <=> (ku.k = "num" /\ ku.v > 0)
            /\ Interpretation[2] = "platykurtic (light-tailed)" <=> (ku.k = "num" /\ ku.v < 0)
            /\ Interpretation[2] = "mesokurtic" <=> ku = Num(0)

====
